---- MODULE Spec2Model ----
(***************************************************************************)
(* Model of the Mermaid Gantt chart formatter (src/src/main.rs).           *)
(*                                                                         *)
(* A Rust &str / String is a sequence of characters; a character is a      *)
(* one-element TLA+ string, except the two-byte character WIDE.  A file    *)
(* is one such sequence in which NL separates the lines.                   *)
(***************************************************************************)
EXTENDS Integers, Sequences, FiniteSets, TLC

\* ------------------------------------------------------------------------
\* Characters and the str primitives the program uses
\* ------------------------------------------------------------------------

SP == " "
NL == "\n"
\* A character whose UTF-8 encoding takes two bytes (such as U+00E9).
WIDE == "U+00E9"

Utf8Len(c) == IF c = WIDE THEN 2 ELSE 1

\* str::len : the number of BYTES of the string.
RECURSIVE str_len(_)
str_len(s) == IF s = <<>> THEN 0 ELSE Utf8Len(Head(s)) + str_len(Tail(s))

\* str::chars().count() : the number of Unicode scalar values.
chars_count(s) == Len(s)

RECURSIVE str_trim_start(_)
str_trim_start(s) ==
    IF s # <<>> /\ Head(s) = SP THEN str_trim_start(Tail(s)) ELSE s

RECURSIVE str_trim_end(_)
str_trim_end(s) ==
    IF s # <<>> /\ s[Len(s)] = SP THEN str_trim_end(SubSeq(s, 1, Len(s) - 1)) ELSE s

str_trim(s) == str_trim_end(str_trim_start(s))

starts_with(s, p) == Len(s) >= Len(p) /\ SubSeq(s, 1, Len(p)) = p

contains(s, p) ==
    \E i \in 1..(Len(s) - Len(p) + 1) : SubSeq(s, i, i + Len(p) - 1) = p

strip_prefix(s, p) == SubSeq(s, Len(p) + 1, Len(s))

\* str::split on a one-character pattern: always at least one piece.
RECURSIVE str_split(_, _)
str_split(s, c) ==
    IF \A i \in 1..Len(s) : s[i] # c
    THEN <<s>>
    ELSE LET i == CHOOSE k \in 1..Len(s) : s[k] = c /\ \A j \in 1..(k - 1) : s[j] # c
         IN  <<SubSeq(s, 1, i - 1)>> \o str_split(SubSeq(s, i + 1, Len(s)), c)

\* " ".repeat(n)
RECURSIVE repeat_space(_)
repeat_space(n) == IF n <= 0 THEN <<>> ELSE <<SP>> \o repeat_space(n - 1)

\* [String]::join("\n")
RECURSIVE join_lines(_)
join_lines(v) ==
    IF v = <<>> THEN <<>>
    ELSE IF Len(v) = 1 THEN v[1]
    ELSE v[1] \o <<NL>> \o join_lines(Tail(v))

\* str::lines : split at NL; a final empty piece is not a line.
str_lines(text) ==
    LET pieces == str_split(text, NL)
    IN  IF pieces[Len(pieces)] = <<>> THEN SubSeq(pieces, 1, Len(pieces) - 1) ELSE pieces

\* .map(str::trim) and .map(str::trim_start) over the pieces of a split
trim_each(v) == [i \in 1..Len(v) |-> str_trim(v[i])]
trim_start_each(v) == [i \in 1..Len(v) |-> str_trim_start(v[i])]

InSeq(x, v) == \E i \in 1..Len(v) : v[i] = x

\* Option<T> as a sequence of at most one element.
None == <<>>
Some(x) == <<x>>

\* ------------------------------------------------------------------------
\* Vocabularies
\* ------------------------------------------------------------------------

MMD_GANTT_KWS ==
    << <<"a","x","i","s","F","o","r","m","a","t">>,
       <<"b","a","r","G","a","p">>,
       <<"b","a","r","H","e","i","g","h","t">>,
       <<"b","o","t","t","o","m","M","a","r","g","i","n","A","d","j">>,
       <<"d","a","t","e","F","o","r","m","a","t">>,
       <<"d","i","s","p","l","a","y","M","o","d","e">>,
       <<"e","x","c","l","u","d","e","s">>,
       <<"f","o","n","t","S","i","z","e">>,
       <<"g","a","n","t","t">>,
       <<"g","r","i","d","L","i","n","e","S","t","a","r","t","P","a","d","d","i","n","g">>,
       <<"l","e","f","t","P","a","d","d","i","n","g">>,
       <<"m","i","r","r","o","r","A","c","t","o","r">>,
       <<"n","u","m","b","e","r","S","e","c","t","i","o","n","S","t","y","l","e","s">>,
       <<"r","i","g","h","t","P","a","d","d","i","n","g">>,
       <<"s","e","c","t","i","o","n","F","o","n","t","S","i","z","e">>,
       <<"t","i","c","k","I","n","t","e","r","v","a","l">>,
       <<"t","i","t","l","e">>,
       <<"t","i","t","l","e","T","o","p","M","a","r","g","i","n">>,
       <<"t","o","d","a","y","M","a","r","k","e","r">>,
       <<"t","o","p","A","x","i","s">>,
       <<"t","o","p","P","a","d","d","i","n","g">>,
       <<"w","e","e","k","d","a","y">>,
       <<"w","e","e","k","e","n","d">> >>

TAG_DONE == <<"d","o","n","e">>
TAG_ACTIVE == <<"a","c","t","i","v","e">>
TAG_CRIT == <<"c","r","i","t">>
TAG_MILESTONE == <<"m","i","l","e","s","t","o","n","e">>

TASK_TAGS == <<TAG_DONE, TAG_ACTIVE, TAG_CRIT, TAG_MILESTONE>>

STR_SECTION == <<"s","e","c","t","i","o","n">>
STR_GANTT == <<"g","a","n","t","t">>
STR_COMMENT == <<"%","%">>
STR_COLON == <<":">>

\* ------------------------------------------------------------------------
\* Pure functions of the formatter
\* ------------------------------------------------------------------------

\* Pads only when 0 < chars <= max_length: checked_sub is None when the string
\* is longer, and len_diff < Some(max_length) is false when the string is empty.
pad_string(string, max_length) ==
    LET n == chars_count(string)
    IN  IF max_length >= n /\ max_length - n < max_length
        THEN string \o repeat_space(max_length - n)
        ELSE string

\* The first string with the strictly greatest BYTE length, None when empty.
RECURSIVE longest_from(_, _)
longest_from(longest, strings) ==
    IF strings = <<>> THEN longest
    ELSE IF str_len(Head(strings)) > str_len(longest)
         THEN longest_from(Head(strings), Tail(strings))
         ELSE longest_from(longest, Tail(strings))

find_longest_string(strings) ==
    IF strings = <<>> THEN None ELSE Some(longest_from(strings[1], strings))

NonEmptyStr(x) == x # <<>>
IsUdi(x) == x # <<>> /\ ~InSeq(x, TASK_TAGS)

\* "tags" holds every non-empty item, "udis" the non-empty items outside TASK_TAGS.
split_meta_tags(metadata) ==
    LET meta_items == trim_each(str_split(metadata, ","))
    IN  [tags |-> SelectSeq(meta_items, NonEmptyStr),
         udis |-> SelectSeq(meta_items, IsUdi)]

push_tags_to_task_line(task_line, task_tags) ==
    LET a == IF InSeq(TAG_ACTIVE, task_tags) THEN <<"a","c","t","i","v","e",","," "," ">>
             ELSE IF InSeq(TAG_DONE, task_tags) THEN <<"d","o","n","e"," "," ",","," "," ">>
             ELSE repeat_space(9)
        b == IF InSeq(TAG_CRIT, task_tags) THEN <<"c","r","i","t",","," "," ">>
             ELSE repeat_space(7)
        c == IF InSeq(TAG_MILESTONE, task_tags)
             THEN <<"m","i","l","e","s","t","o","n","e",","," "," ">>
             ELSE repeat_space(12)
    IN  task_line \o a \o b \o c

SEP_ITEM == <<",", " ", " ">>
SEP_BLANK == <<" ", " ", " ">>

push_udis_to_task_line(task_line, task_udis, map) ==
    IF Len(task_udis) = 3 THEN
        task_line \o pad_string(task_udis[1], map.max_len_task_id) \o SEP_ITEM
                  \o pad_string(task_udis[2], map.max_len_start) \o SEP_ITEM
                  \o pad_string(task_udis[3], map.max_len_end)
    ELSE IF Len(task_udis) = 2 THEN
        task_line \o repeat_space(map.max_len_task_id) \o SEP_BLANK
                  \o pad_string(task_udis[1], map.max_len_start) \o SEP_ITEM
                  \o pad_string(task_udis[2], map.max_len_end)
    ELSE IF Len(task_udis) = 1 THEN
        task_line \o repeat_space(map.max_len_task_id) \o SEP_BLANK
                  \o repeat_space(map.max_len_start) \o SEP_BLANK
                  \o pad_string(task_udis[1], map.max_len_end)
    ELSE task_line

ContainsKeyword(line) == \E k \in 1..Len(MMD_GANTT_KWS) : contains(line, MMD_GANTT_KWS[k])

IsWidthTaskLine(line) ==
    ~ContainsKeyword(line) /\ ~starts_with(line, STR_COMMENT) /\ contains(line, STR_COLON)

get_task_lines(lines) == SelectSeq(trim_each(lines), IsWidthTaskLine)


\* line.split(":").map(str::trim): the line is split at EVERY colon.
split_colon(l) == trim_each(str_split(l, ":"))

\* The four lists get_max_item_lengths collects, given the split of each
\* task line, of which pieces 0 and 1 are used.
RECURSIVE collect_items(_, _)
collect_items(splits, acc) ==
    IF splits = <<>> THEN acc
    ELSE LET metadata == Head(splits)
             task_udis == split_meta_tags(metadata[2]).udis
             acc1 == [acc EXCEPT !.titles = Append(@, metadata[1])]
             acc2 == IF Len(task_udis) = 3 THEN
                        [acc1 EXCEPT !.ids = Append(@, task_udis[1]),
                                     !.starts = Append(@, task_udis[2]),
                                     !.ends = Append(@, task_udis[3])]
                     ELSE IF Len(task_udis) = 2 THEN
                        [acc1 EXCEPT !.starts = Append(@, task_udis[1]),
                                     !.ends = Append(@, task_udis[2])]
                     ELSE IF Len(task_udis) = 1 THEN
                        [acc1 EXCEPT !.ends = Append(@, task_udis[1])]
                     ELSE acc1
         IN  collect_items(Tail(splits), acc2)

NoItems == [titles |-> <<>>, ids |-> <<>>, starts |-> <<>>, ends |-> <<>>]

item_lists(lines) ==
    LET task_lines == get_task_lines(lines)
    IN  collect_items([i \in 1..Len(task_lines) |-> split_colon(task_lines[i])], NoItems)

\* _get_count unwraps the Option: it panics on None.
get_count_panics(option) == option = None
get_count(option) == chars_count(option[1])

NoLengths == [max_len_title |-> 0, max_len_task_id |-> 0, max_len_start |-> 0, max_len_end |-> 0]

\* The result of get_max_item_lengths: panic is TRUE when one of the four
\* unwraps fails, and then no map is returned.
lengths_of(items) ==
    LET t == find_longest_string(items.titles)
        i == find_longest_string(items.ids)
        s == find_longest_string(items.starts)
        e == find_longest_string(items.ends)
    IN  IF get_count_panics(t) \/ get_count_panics(i) \/ get_count_panics(s) \/ get_count_panics(e)
        THEN [panic |-> TRUE, map |-> NoLengths]
        ELSE [panic |-> FALSE,
              map |-> [max_len_title |-> get_count(t), max_len_task_id |-> get_count(i),
                       max_len_start |-> get_count(s), max_len_end |-> get_count(e)]]

get_max_item_lengths(lines) == lengths_of(item_lists(lines))

SEP_TITLE == <<" ", " ", ":", " ">>
INDENT_TASK == <<" ", " ", " ", " ">>
INDENT_COMMENTED_TASK == <<"%", "%", " ", " ">>
INDENT_KEYWORD == <<" ", " ">>
SECTION_HEAD == <<NL, " ", " ", "s", "e", "c", "t", "i", "o", "n", " ">>

\* Lines 169-199 of push_task_line: the rendered line from the two pieces of the split.
format_task_line(title, metadata, map) ==
    LET meta_items == split_meta_tags(metadata)
        task_line == push_udis_to_task_line(
                         push_tags_to_task_line(pad_string(title, map.max_len_title) \o SEP_TITLE,
                                                meta_items.tags),
                         meta_items.udis, map)
    IN  IF starts_with(task_line, STR_COMMENT)
        THEN LET comment_task_split ==
                     trim_start_each(str_split(strip_prefix(task_line, STR_COMMENT), ":"))
                 first_half == pad_string(comment_task_split[1], map.max_len_title)
                 second_half == comment_task_split[2]
             IN  INDENT_COMMENTED_TASK \o first_half \o SEP_TITLE \o second_half
        ELSE INDENT_TASK \o task_line

\* Pieces 0 and 1 of the split at every colon are used.
push_task_line(line, map, new_lines) ==
    LET task_split == split_colon(line)
    IN  Append(new_lines, format_task_line(task_split[1], task_split[2], map))

\* strip_prefix("section").unwrap() panics when the line does not start with it.
push_section_line_panics(line) == ~starts_with(line, STR_SECTION)

\* The section line pushed without the newline in front of it.
push_section_line_no_newline(line, new_lines) ==
    Append(new_lines, Tail(SECTION_HEAD) \o str_trim(strip_prefix(line, STR_SECTION)))

push_section_line(line, new_lines) ==
    Append(new_lines, SECTION_HEAD \o str_trim(strip_prefix(line, STR_SECTION)))

line_is_empty_before_section(line, idx, c_map_lines) ==
    IF idx + 1 < Len(c_map_lines)
    THEN c_map_lines # <<>> /\ line = <<>> /\ contains(c_map_lines[idx + 2], STR_SECTION)
    ELSE FALSE

line_is_keyword(line) == \E k \in 1..Len(MMD_GANTT_KWS) : starts_with(line, MMD_GANTT_KWS[k])
line_is_task(line) == contains(line, STR_COLON)
line_is_commented_section(line) == starts_with(line, STR_COMMENT) /\ contains(line, STR_SECTION)
line_is_comment(line) == starts_with(line, STR_COMMENT) /\ ~contains(line, STR_COLON)
line_is_title(line) == starts_with(line, STR_GANTT)


\* ------------------------------------------------------------------------
\* Input documents
\* ------------------------------------------------------------------------

\* The longest document, in lines.
MaxLines == 3
\* The longest document of the section-spacing specification, in lines.
MaxSectionLines == 4
\* How many times the formatter is run on the same file.
MaxRuns == 2

LINE_GANTT == <<"g","a","n","t","t">>
LINE_KEYWORD == <<" "," ","t","i","t","l","e"," ","T">>
LINE_SECTION == <<"s","e","c","t","i","o","n"," ","S">>
LINE_COMMENTED_SECTION == <<"%","%"," ","s","e","c","t","i","o","n"," ","S">>
LINE_COMMENT == <<"%","%"," ","c">>
LINE_BLANK == <<>>
LINE_OTHER == <<"x">>
\* Tasks with three, two and one user-defined items.
LINE_TASK3 == <<"A","b","c",":","d","o","n","e",",","i",",","s",",","e">>
LINE_TASK2 == <<"B"," ",":","c","r","i","t",","," ","s","2",","," ","e">>
LINE_TASK1 == <<"C",":"," ","m","i","l","e","s","t","o","n","e",","," ","e","3">>
\* A commented-out task without tags.
LINE_COMMENTED_TASK == <<"%","%"," ","D",":"," ","i",","," ","s",","," ","e">>
\* A task with an empty title.
LINE_EMPTY_TITLE == <<":","i",",","s",",","e">>
\* A task whose title contains the keyword "title".
LINE_KEYWORD_TITLE == <<"m","y"," ","t","i","t","l","e",":"," ","i",","," ","s",","," ","e">>
\* A task with a second colon, followed by a keyword.
LINE_COLON_KEYWORD == <<"L","o","n","g",":","i",",","s",",","e",":","t","i","t","l","e">>
\* A task whose end is a time of day.
LINE_TIME == <<"T",":","i",",","s",",","1","2",":","3","0">>
\* A task with four user-defined items.
LINE_TASK4 == <<"T",":","a",",","b",",","c",",","d">>
\* A task whose title has two characters and four bytes.
LINE_WIDE == <<WIDE, WIDE, ":","i",",","s",",","e">>
\* A line that contains "section" without starting with it.
LINE_INNER_SECTION == <<"a"," ","s","e","c","t","i","o","n">>
\* A keyword line that starts with "section".
LINE_SECTION_KEYWORD == <<"s","e","c","t","i","o","n","F","o","n","t","S","i","z","e"," ","3">>
\* A line of white space.
LINE_SPACES == <<" "," ">>

Catalog ==
    { LINE_GANTT, LINE_KEYWORD, LINE_SECTION, LINE_COMMENTED_SECTION, LINE_COMMENT,
      LINE_BLANK, LINE_OTHER, LINE_TASK3, LINE_TASK2, LINE_TASK1, LINE_COMMENTED_TASK,
      LINE_EMPTY_TITLE, LINE_KEYWORD_TITLE, LINE_COLON_KEYWORD, LINE_TIME, LINE_TASK4,
      LINE_WIDE, LINE_INNER_SECTION }

SectionCatalog ==
    { LINE_GANTT, LINE_SECTION_KEYWORD, LINE_SECTION, LINE_COMMENTED_SECTION, LINE_COMMENT,
      LINE_BLANK, LINE_SPACES, LINE_OTHER, LINE_TASK3 }

Documents(catalog, n) == UNION { [1..k -> catalog] : k \in 0..n }

\* ------------------------------------------------------------------------
\* State
\* ------------------------------------------------------------------------

VARIABLES
    file,             \* the contents of the file named by the first argument
    prev_file,        \* its contents before the last write
    run,              \* the number of the current run of main
    pc,               \* "main", "lengths", "loop", "returned", "written", "panic"
    lines,            \* generate_new_lines: the argument
    idx,              \* generate_new_lines: _idx of the loop
    new_lines,        \* generate_new_lines: the result under construction
    map_item_lenths   \* generate_new_lines: the result of get_max_item_lengths

vars == <<file, prev_file, run, pc, lines, idx, new_lines, map_item_lenths>>

InitWith(docs) ==
    /\ file \in { join_lines(d) : d \in docs }
    /\ prev_file = <<>>
    /\ run = 1
    /\ pc = "main"
    /\ lines = <<>>
    /\ idx = 0
    /\ new_lines = <<>>
    /\ map_item_lenths = NoLengths

Init == InitWith(Documents(Catalog, MaxLines))

InitSections == InitWith(Documents(SectionCatalog, MaxSectionLines))

\* ------------------------------------------------------------------------
\* Actions
\* ------------------------------------------------------------------------

\* main: read_to_string and file_text.lines().collect()
MainRead ==
    /\ pc = "main"
    /\ lines' = str_lines(file)
    /\ pc' = "lengths"
    /\ idx' = 0
    /\ new_lines' = <<>>
    /\ map_item_lenths' = NoLengths
    /\ UNCHANGED <<file, prev_file, run>>

\* generate_new_lines, line 353
GetMaxItemLengths ==
    /\ pc = "lengths"
    /\ LET r == get_max_item_lengths(lines)
       IN  /\ pc' = IF r.panic THEN "panic" ELSE "loop"
           /\ map_item_lenths' = r.map
    /\ UNCHANGED <<file, prev_file, run, lines, idx, new_lines>>

c_map_lines == trim_each(lines)

\* The if / else-if chain of the loop body (lines 358-375): the branch taken
\* for the trimmed line at 0-based index i.
Branch(trimmed, i) ==
    LET l == trimmed[i + 1]
    IN  IF line_is_title(l) THEN "title"
        ELSE IF line_is_keyword(l) THEN "keyword"
        ELSE IF line_is_commented_section(l) THEN "commented_section"
        ELSE IF line_is_comment(l) THEN "comment"
        ELSE IF line_is_empty_before_section(l, i, trimmed) THEN "empty_before_section"
        ELSE IF contains(l, STR_SECTION) THEN "section"
        ELSE IF line_is_task(l) THEN "task"
        ELSE IF l # <<>> THEN "other"
        ELSE "none"

InLoop == pc = "loop" /\ idx < Len(lines)
line == str_trim(lines[idx + 1])
Taken(branch) == InLoop /\ Branch(c_map_lines, idx) = branch

Advance(result) ==
    /\ new_lines' = result
    /\ idx' = idx + 1
    /\ UNCHANGED <<file, prev_file, run, pc, lines, map_item_lenths>>

LineTitle == Taken("title") /\ Advance(Append(new_lines, line))

LineKeyword == Taken("keyword") /\ Advance(Append(new_lines, INDENT_KEYWORD \o line))

LineCommentedSection ==
    Taken("commented_section") /\ Advance(Append(Append(new_lines, <<>>), line))

LineComment == Taken("comment") /\ Advance(Append(new_lines, line))

LineEmptyBeforeSection == Taken("empty_before_section") /\ Advance(new_lines)

LineSection ==
    /\ Taken("section")
    /\ IF push_section_line_panics(line)
       THEN /\ pc' = "panic"
            /\ UNCHANGED <<file, prev_file, run, lines, idx, new_lines, map_item_lenths>>
       ELSE Advance(push_section_line(line, new_lines))

LineTask == Taken("task") /\ Advance(push_task_line(line, map_item_lenths, new_lines))

LineOther == Taken("other") /\ Advance(Append(new_lines, line))

\* An empty line that is not before a section matches no branch of the chain.
LineNoBranch == Taken("none") /\ Advance(new_lines)

\* generate_new_lines, lines 377-378
Return ==
    /\ pc = "loop" /\ idx = Len(lines)
    /\ new_lines' = Append(new_lines, <<>>)
    /\ pc' = "returned"
    /\ UNCHANGED <<file, prev_file, run, lines, idx, map_item_lenths>>

\* main: create_or_replace_file(file_name, ....join("\n")), the file edited in place
MainWrite ==
    /\ pc = "returned"
    /\ file' = join_lines(new_lines)
    /\ prev_file' = file
    /\ pc' = "written"
    /\ UNCHANGED <<run, lines, idx, new_lines, map_item_lenths>>

\* The formatter is run again on the file it wrote.
RunAgain ==
    /\ pc = "written" /\ run < MaxRuns
    /\ run' = run + 1
    /\ pc' = "main"
    /\ UNCHANGED <<file, prev_file, lines, idx, new_lines, map_item_lenths>>

Next ==
    \/ MainRead
    \/ GetMaxItemLengths
    \/ LineTitle
    \/ LineKeyword
    \/ LineCommentedSection
    \/ LineComment
    \/ LineEmptyBeforeSection
    \/ LineSection
    \/ LineTask
    \/ LineOther
    \/ LineNoBranch
    \/ Return
    \/ MainWrite
    \/ RunAgain

Spec == Init /\ [][Next]_vars

SpecSections == InitSections /\ [][Next]_vars


\* ------------------------------------------------------------------------
\* Reading the output
\* ------------------------------------------------------------------------

\* The output as lines: an element of new_lines may hold a newline.
RECURSIVE FlatLines(_)
FlatLines(v) == IF v = <<>> THEN <<>> ELSE str_split(Head(v), NL) \o FlatLines(Tail(v))

Last(v) == v[Len(v)]

\* A rendered task line is the only output line that starts with four spaces,
\* and the only line starting with %% that has a colon and no "section".
IsRenderedTask(l) ==
    \/ starts_with(l, INDENT_TASK)
    \/ starts_with(l, STR_COMMENT) /\ contains(l, STR_COLON) /\ ~contains(l, STR_SECTION)

RenderedTasks(v) == { l \in { FlatLines(v)[i] : i \in 1..Len(FlatLines(v)) } : IsRenderedTask(l) }

FirstIndexOf(l, c) == CHOOSE k \in 1..Len(l) : l[k] = c /\ \A j \in 1..(k - 1) : l[j] # c

\* 0-based offset of the first colon of a line that has one.
ColonOffset(l) == FirstIndexOf(l, ":") - 1

\* The comma-separated items of l from the 1-based index from on, each with
\* the 0-based offset of its first character.
RECURSIVE ItemsFrom(_, _)
ItemsFrom(l, from) ==
    LET rest == SubSeq(l, from, Len(l))
        stop == IF InSeq(",", rest) THEN from + FirstIndexOf(rest, ",") - 1 ELSE Len(l) + 1
        raw == SubSeq(l, from, stop - 1)
        item == [text |-> str_trim(raw),
                 off |-> from - 1 + (Len(raw) - Len(str_trim_start(raw)))]
    IN  <<item>> \o (IF stop > Len(l) THEN <<>> ELSE ItemsFrom(l, stop + 1))

IsUdiItem(item) == IsUdi(item.text)

\* The user-defined items of a rendered task line, with their offsets.
UdiItems(l) == SelectSeq(ItemsFrom(l, ColonOffset(l) + 2), IsUdiItem)

HasId(l) == Len(UdiItems(l)) = 3
HasStart(l) == Len(UdiItems(l)) \in {2, 3}
HasEnd(l) == Len(UdiItems(l)) \in {1, 2, 3}
IdOffset(l) == UdiItems(l)[1].off
StartOffset(l) == UdiItems(l)[Len(UdiItems(l)) - 1].off
EndOffset(l) == UdiItems(l)[Len(UdiItems(l))].off

\* The width of what lies between the "  : " separator and the first
\* user-defined-item column, the absent columns counted at their widths.
TagBlockWidth(l, map) ==
    LET after == ColonOffset(l) + 2
        n == Len(UdiItems(l))
    IN  IF n = 3 THEN IdOffset(l) - after
        ELSE IF n = 2 THEN StartOffset(l) - after - (map.max_len_task_id + 3)
        ELSE IF n = 1 THEN EndOffset(l) - after - (map.max_len_task_id + 3) - (map.max_len_start + 3)
        ELSE Len(l) - after

\* The text before the first colon and the whole text after it, trimmed.
split_first_colon(l) ==
    LET k == FirstIndexOf(l, ":")
    IN  <<str_trim(SubSeq(l, 1, k - 1)), str_trim(SubSeq(l, k + 1, Len(l)))>>

\* The title of a task line without its comment marker.
TitleText(l) ==
    LET t == split_first_colon(l)[1]
    IN  IF starts_with(t, STR_COMMENT) THEN str_trim(strip_prefix(t, STR_COMMENT)) ELSE t

SeqToSet(v) == { v[i] : i \in 1..Len(v) }

\* The semantic content of a task line: title, tag set, ordered items.
TaskContent(l) ==
    LET meta == split_meta_tags(split_first_colon(l)[2])
    IN  [title |-> TitleText(l),
         tags |-> SeqToSet(meta.tags) \cap SeqToSet(TASK_TAGS),
         udis |-> meta.udis]

RECURSIVE MaxCount(_)
MaxCount(strings) ==
    IF strings = <<>> THEN 0
    ELSE LET m == MaxCount(Tail(strings))
         IN  IF chars_count(Head(strings)) > m THEN chars_count(Head(strings)) ELSE m

Formatted == pc \in {"returned", "written"}


\* ------------------------------------------------------------------------
\* Properties
\* ------------------------------------------------------------------------

\* C1: for every input document generate_new_lines completes and returns its
\* output lines; the formatting step never panics.
C1_NeverPanics == pc # "panic"

\* C2: in the output, the offset of the ":" separator is the same on every
\* rendered task line, and so are the offsets at which the id, the start and
\* the end sub-columns begin, whether a task has 1, 2 or 3 user-defined items.
C2_ColumnsAligned ==
    pc = "returned" =>
        \A a, b \in RenderedTasks(new_lines) :
            /\ ColonOffset(a) = ColonOffset(b)
            /\ (HasId(a) /\ HasId(b)) => IdOffset(a) = IdOffset(b)
            /\ (HasStart(a) /\ HasStart(b)) => StartOffset(a) = StartOffset(b)
            /\ (HasEnd(a) /\ HasEnd(b)) => EndOffset(a) = EndOffset(b)

\* C3: formatting the text the formatter wrote yields the same text again.
C3_Idempotent == (pc = "written" /\ run >= 2) => file = prev_file

\* C4: the output line of a task has the title, the tag set and the ordered
\* user-defined items of its input line (the metadata being all the text after
\* the first colon); the output line of a section has its title, and the
\* output line of a keyword line has its text.
C4_ContentPreserved ==
    [][ /\ Taken("task") => TaskContent(Last(new_lines')) = TaskContent(line)
        /\ (Taken("section") /\ pc' = "loop") =>
               str_trim(strip_prefix(str_trim(Last(FlatLines(new_lines'))), STR_SECTION))
                   = str_trim(strip_prefix(line, STR_SECTION))
        /\ Taken("keyword") => str_trim(Last(new_lines')) = line ]_vars

RenderedSectionPrefix == Tail(SECTION_HEAD)

\* C5: every section header line of the output is immediately preceded by
\* exactly one empty line: the line before it is empty and the line before
\* that one, if any, is not.
C5_OneBlankBeforeSection ==
    LET out == FlatLines(new_lines)
    IN  \A i \in 1..Len(out) :
            starts_with(out[i], RenderedSectionPrefix) =>
                /\ i > 1 /\ out[i - 1] = <<>>
                /\ i > 2 => out[i - 2] # <<>>

\* A run has returned for a document in which a non-empty line, two blank
\* lines and a section line follow each other, and the section was rendered.
C5_Witness ==
    /\ pc = "returned"
    /\ \E i \in 1..(Len(lines) - 3) :
           /\ c_map_lines[i] # <<>>
           /\ c_map_lines[i + 1] = <<>>
           /\ c_map_lines[i + 2] = <<>>
           /\ Branch(c_map_lines, i + 2) = "section"
    /\ \E i \in 1..Len(FlatLines(new_lines)) :
           starts_with(FlatLines(new_lines)[i], RenderedSectionPrefix)

\* C6: on every rendered task line, commented-out or not, the tag block
\* between the "  : " separator and the first user-defined-item column is
\* exactly 28 characters wide, whichever tags the task carries.
C6_TagBlock28 ==
    pc = "returned" =>
        \A l \in RenderedTasks(new_lines) : TagBlockWidth(l, map_item_lenths) = 28

\* C7: when no task line supplies a value for a column, get_max_item_lengths
\* returns a record whose entry for that column is 0, and rendering goes on.
C7_WidthsDefaultToZero ==
    [][ (pc = "lengths" /\ \E f \in DOMAIN NoItems : item_lists(lines)[f] = <<>>) =>
            /\ pc' = "loop"
            /\ item_lists(lines).titles = <<>> => map_item_lenths'.max_len_title = 0
            /\ item_lists(lines).ids = <<>> => map_item_lenths'.max_len_task_id = 0
            /\ item_lists(lines).starts = <<>> => map_item_lenths'.max_len_start = 0
            /\ item_lists(lines).ends = <<>> => map_item_lenths'.max_len_end = 0 ]_vars

\* The task lines are the uncommented, keyword-free lines the widths are
\* computed from, and every column has a value.
C8_Applies ==
    /\ \A i \in 1..Len(lines) :
           Branch(c_map_lines, i - 1) = "task" <=> IsWidthTaskLine(c_map_lines[i])
    /\ \A f \in DOMAIN NoItems : item_lists(lines)[f] # <<>>

\* C8: for such a document each of the four widths is the maximum, over the
\* task lines, of the number of characters (not bytes) of the column's value.
C8_WidthsAreMaxima ==
    (pc = "loop" /\ C8_Applies) =>
        map_item_lenths = [max_len_title |-> MaxCount(item_lists(lines).titles),
                           max_len_task_id |-> MaxCount(item_lists(lines).ids),
                           max_len_start |-> MaxCount(item_lists(lines).starts),
                           max_len_end |-> MaxCount(item_lists(lines).ends)]

\* C9: for an input line that is blank and to which the suppression rule
\* does not apply, exactly one empty line is emitted.
C9_BlankPassthrough ==
    [][ Taken("none") => new_lines' = Append(new_lines, <<>>) ]_vars

\* C10: a task line is split at its first colon only: the widths are computed
\* from, and the line is rendered from, the trimmed text before the first
\* colon and the whole trimmed text after it.
C10_FirstColonSplit ==
    [][ /\ (pc = "lengths" /\ pc' = "loop") =>
               map_item_lenths' =
                   lengths_of(collect_items(
                       [i \in 1..Len(get_task_lines(lines)) |->
                            split_first_colon(get_task_lines(lines)[i])], NoItems)).map
        /\ Taken("task") =>
               new_lines' = Append(new_lines,
                                   format_task_line(split_first_colon(line)[1],
                                                    split_first_colon(line)[2],
                                                    map_item_lenths)) ]_vars

====
